---- MODULE Spec2Model ----
(***************************************************************************)
(* A model of xinshuo_images/python/image_operator.py (class linear_filter)*)
(* and xinshuo_math/python/math_conversion.py (nparray_hwc2chw,            *)
(* nparray_chw2hwc, generate_gaussian_heatmap, nparray_resize).            *)
(*                                                                         *)
(* Python values are encoded as follows.                                   *)
(*   None               the empty sequence <<>>                            *)
(*   an optional scalar <<>> (None) or the one-element sequence <<v>>      *)
(*   a (height, width)  the pair <<h, w>>                                  *)
(*   a numpy array      [shape |-> <<d1, .., dn>>, data |-> f] where f maps *)
(*                      every index tuple of the shape to its element      *)
(*   an exception       the name of its Python class in a status field     *)
(***************************************************************************)
EXTENDS Integers, Sequences, FiniteSets, TLC

VARIABLES
    objs,       \* the linear_filter objects constructed so far, in order
    lastSobel,  \* history: per object, the kernel its last successful sobel_filter returned
    pc,         \* position of the function call under way
    args,       \* arguments of the function call under way
    frame,      \* local variables of the function call under way
    ret         \* outcome of the last call: status, returned value, and what was called

vars == <<objs, lastSobel, pc, args, frame, ret>>

None == <<>>

NoCall == [op |-> "none", status |-> "none", value |-> None]

------------------------------------------------------------------------------
(* xinshuo_miscellaneous helpers, imported by both files *)

\* isimsize: a (height, width) pair of positive integers
isimsize(v) == Len(v) = 2 /\ v[1] > 0 /\ v[2] > 0

------------------------------------------------------------------------------
(* image_operator.py: class linear_filter *)

MaxFilters == 2

FilterSizes == {None, <<3, 3>>, <<0, 3>>}
Axes == {"x", "y", "z"}

\* __init__: line 14 evaluates the tuple (isimsize(filter_size), message) under
\* debug and drops it; there is no assert, so every argument is accepted.
linear_filter_init(filter_size, warning, debug) ==
    LET unused == IF debug THEN <<isimsize(filter_size)>> ELSE None
    IN  [status |-> "ok",
         value  |-> [debug |-> debug, warning |-> warning,
                     filter_size |-> filter_size, weights |-> None]]

\* gaussian_filter: line 24 reads the names debug and filter_size, which are
\* neither locals nor module globals, so evaluating "if debug" raises NameError.
gaussian_filter(self) ==
    [status |-> "NameError", value |-> None, self |-> self]

sobel_x == << <<-1, 0, 1>>, <<-2, 0, 2>>, <<-1, 0, 1>> >>
sobel_y == << <<-1, -2, 1>>, <<0, 0, 0>>, <<1, 2, 1>> >>

sobel_local_textbook(axis) ==
    IF axis = "x" THEN <<sobel_x>>
    ELSE IF axis = "y" THEN << << <<-1, -2, -1>>, <<0, 0, 0>>, <<1, 2, 1>> >> >>
    ELSE None

\* the local variable sobel after lines 33-34: bound for x and y, unbound otherwise
sobel_local(axis) ==
    IF axis = "x" THEN <<sobel_x>>
    ELSE IF axis = "y" THEN <<sobel_y>>
    ELSE None

sobel_filter_no_store(self, axis) ==
    IF self.debug /\ axis \notin {"x", "y"}
    THEN [status |-> "AssertionError", value |-> None, self |-> self]
    ELSE IF sobel_local(axis) = None
    THEN [status |-> "UnboundLocalError", value |-> None, self |-> self]
    ELSE [status |-> "ok", value |-> sobel_local(axis)[1], self |-> self]

\* sobel_filter: assert under self.debug (line 31), build the kernel (33-34),
\* store it in self.weights (35; reading the unbound local raises
\* UnboundLocalError before the store), return it (37).
sobel_filter(self, axis) ==
    IF self.debug /\ axis \notin {"x", "y"}
    THEN [status |-> "AssertionError", value |-> None, self |-> self]
    ELSE IF sobel_local(axis) = None
    THEN [status |-> "UnboundLocalError", value |-> None, self |-> self]
    ELSE [status |-> "ok", value |-> sobel_local(axis)[1],
          self |-> [self EXCEPT !.weights = sobel_local(axis)[1]]]

InitFilter ==
    /\ objs = <<>>
    /\ lastSobel = <<>>
    /\ pc = "filter"
    /\ args = None
    /\ frame = None
    /\ ret = NoCall

Construct ==
    /\ Len(objs) < MaxFilters
    /\ \E fs \in FilterSizes, w \in BOOLEAN, d \in BOOLEAN :
         LET r == linear_filter_init(fs, w, d)
         IN  /\ objs' = Append(objs, r.value)
             /\ lastSobel' = Append(lastSobel, None)
             /\ ret' = [op |-> "init", status |-> r.status, value |-> None,
                        self |-> Len(objs) + 1, arg |-> fs]
    /\ UNCHANGED <<pc, args, frame>>

Sobel ==
    /\ \E i \in DOMAIN objs, axis \in Axes :
         LET r == sobel_filter(objs[i], axis)
         IN  /\ objs' = [objs EXCEPT ![i] = r.self]
             /\ lastSobel' = IF r.status = "ok"
                             THEN [lastSobel EXCEPT ![i] = r.value]
                             ELSE lastSobel
             /\ ret' = [op |-> "sobel", status |-> r.status, value |-> r.value,
                        self |-> i, arg |-> axis]
    /\ UNCHANGED <<pc, args, frame>>

Gaussian ==
    /\ \E i \in DOMAIN objs :
         LET r == gaussian_filter(objs[i])
         IN  /\ objs' = [objs EXCEPT ![i] = r.self]
             /\ ret' = [op |-> "gaussian", status |-> r.status, value |-> r.value,
                        self |-> i, arg |-> None]
    /\ UNCHANGED <<lastSobel, pc, args, frame>>

NextFilter == Construct \/ Sobel \/ Gaussian

SpecFilter == InitFilter /\ [][NextFilter]_vars

\* C6: after sobel_filter('x') the call has returned exactly
\* [[-1,0,1],[-2,0,2],[-1,0,1]], after sobel_filter('y') exactly
\* [[-1,-2,1],[0,0,0],[1,2,1]], on any filter object, and the object's weights
\* field equals the kernel just returned.
C6_SobelKernels ==
    (ret.op = "sobel" /\ ret.arg \in {"x", "y"}) =>
        /\ ret.status = "ok"
        /\ ret.arg = "x" => ret.value = << <<-1, 0, 1>>, <<-2, 0, 2>>, <<-1, 0, 1>> >>
        /\ ret.arg = "y" => ret.value = << <<-1, -2, 1>>, <<0, 0, 0>>, <<1, 2, 1>> >>
        /\ objs[ret.self].weights = ret.value

C6_Witness ==
    /\ ret.op = "sobel" /\ ret.arg = "y" /\ ret.status = "ok"
    /\ ~objs[ret.self].debug
    /\ objs[ret.self].weights = << <<-1, -2, 1>>, <<0, 0, 0>>, <<1, 2, 1>> >>

\* C7: gaussian_filter() on any filter object fails with a NotImplemented
\* error; it returns no value and fails with no other kind of error.
C7_GaussianNotImplemented ==
    ret.op = "gaussian" =>
        ret.status = "NotImplementedError" /\ ret.value = None

\* C8: constructing a filter without a valid positive (height, width) filter
\* size raises an error and yields no object, so every object that exists has
\* a valid filter size.
C8_ConstructionNeedsFilterSize ==
    /\ (ret.op = "init" /\ ~isimsize(ret.arg)) => ret.status # "ok"
    /\ \A i \in DOMAIN objs : isimsize(objs[i].filter_size)

\* C9: for every axis outside {x, y} and either value of the debug flag,
\* sobel_filter(axis) fails with the assertion's error, returns no kernel and
\* leaves every object's weights as they were.
C9_BadAxisRejected ==
    [][(ret'.op = "sobel" /\ Sobel /\ ret'.arg \notin {"x", "y"}) =>
          /\ ret'.status = "AssertionError"
          /\ ret'.value = None
          /\ \A i \in DOMAIN objs : objs'[i].weights = objs[i].weights]_vars

\* C9 without the kind of error: for every axis outside {x, y} the call fails
\* (by the assertion when debug is on, on the unbound local when it is off),
\* returns no kernel and leaves every object as it was.
C9_BadAxisFailsUnchanged ==
    [][(ret'.op = "sobel" /\ Sobel /\ ret'.arg \notin {"x", "y"}) =>
          /\ ret'.status = (IF objs[ret'.self].debug THEN "AssertionError"
                                                    ELSE "UnboundLocalError")
          /\ ret'.value = None
          /\ objs' = objs]_vars

\* C10: each object's weights field is None until its first successful
\* sobel_filter call and afterwards is the kernel its most recent successful
\* sobel_filter call returned; a call changes the weights of no object other
\* than the one it is made on, and gaussian_filter and failed calls change none.
C10_WeightsFollowLastSobel ==
    /\ [](\A i \in DOMAIN objs : objs[i].weights = lastSobel[i])
    /\ [][\A i \in DOMAIN objs :
            (ret'.op # "sobel" \/ ret'.status # "ok" \/ ret'.self # i)
                => objs'[i].weights = objs[i].weights]_vars

C10_Witness ==
    /\ Len(objs) = 2
    /\ objs[1].weights = sobel_x
    /\ objs[2].weights = None
    /\ lastSobel[1] = sobel_x
    /\ ret.op = "gaussian" /\ ret.self = 1

------------------------------------------------------------------------------
(* numpy arrays *)

MaxDim == 3
MaxOffset == 1
MaxCalls == 2

ndim(a) == Len(a.shape)

\* the index tuples of an array of the given shape (numpy indices start at 0)
Indices(shape) ==
    IF Len(shape) = 3
    THEN {<<i, j, k>> : i \in 0..(shape[1] - 1), j \in 0..(shape[2] - 1),
                        k \in 0..(shape[3] - 1)}
    ELSE IF Len(shape) = 2
    THEN {<<i, j>> : i \in 0..(shape[1] - 1), j \in 0..(shape[2] - 1)}
    ELSE {}

\* position of an index tuple in row-major order
RowMajor(shape, idx) ==
    IF Len(shape) = 3
    THEN (idx[1] * shape[2] + idx[2]) * shape[3] + idx[3]
    ELSE idx[1] * shape[2] + idx[2]

\* an array whose elements are all different: element = offset + row-major position
Labelled(shape, offset) ==
    [shape |-> shape,
     data  |-> [idx \in Indices(shape) |-> offset + RowMajor(shape, idx)]]

\* np.transpose(a, axes): axis n of the result is axis axes[n] of a (axes count
\* from 0); ValueError when axes does not name every axis of a.
np_transpose(a, axes) ==
    IF Len(axes) # ndim(a)
    THEN [status |-> "ValueError", value |-> None]
    ELSE LET shape == [n \in 1..Len(axes) |-> a.shape[axes[n] + 1]]
             src(idx) == [m \in 1..Len(axes) |->
                            idx[CHOOSE n \in 1..Len(axes) : axes[n] + 1 = m]]
         IN  [status |-> "ok",
              value  |-> [shape |-> shape,
                          data  |-> [idx \in Indices(shape) |-> a.data[src(idx)]]]]

\* private.safe_npdata: a copy of the array it is given
safe_npdata(input, warning, debug) == input

\* xinshuo_miscellaneous.isnparray
isnparray(input) == "shape" \in DOMAIN input

------------------------------------------------------------------------------
(* math_conversion.py: format conversion *)

\* nparray_hwc2chw: copy (21), rank check under debug (22), transpose (24). The
\* assert's message reads the undefined name np_image, so a failing check
\* raises NameError while the message is built.
nparray_hwc2chw(input_nparray, warning, debug) ==
    LET np_array == safe_npdata(input_nparray, warning, debug)
    IN  IF debug /\ ndim(np_array) # 3
        THEN [status |-> "NameError", value |-> None]
        ELSE np_transpose(np_array, <<2, 0, 1>>)

nparray_chw2hwc_reversed(input_nparray, warning, debug) ==
    LET np_array == input_nparray
    IN  IF debug /\ ndim(np_array) # 3
        THEN [status |-> "NameError", value |-> None]
        ELSE np_transpose(np_array, <<2, 1, 0>>)

\* nparray_chw2hwc: line 36 builds and drops a tuple (no assert), copy (37),
\* rank check under debug (38), transpose (40).
nparray_chw2hwc(input_nparray, warning, debug) ==
    LET unused == IF debug THEN <<isnparray(input_nparray)>> ELSE None
        np_array == input_nparray
    IN  IF debug /\ ndim(np_array) # 3
        THEN [status |-> "NameError", value |-> None]
        ELSE np_transpose(np_array, <<1, 2, 0>>)

ConvShapes ==
    {<<a, b, c>> : a \in 1..MaxDim, b \in 1..MaxDim, c \in 1..MaxDim}
        \cup {<<a, b>> : a \in 1..MaxDim, b \in 1..MaxDim}

InitConv ==
    /\ objs = <<>>
    /\ lastSobel = <<>>
    /\ pc = "conv"
    /\ \E shape \in ConvShapes, offset \in 0..MaxOffset :
         /\ args = [input |-> Labelled(shape, offset)]
         /\ frame = [cur |-> Labelled(shape, offset), calls |-> <<>>]
    /\ ret = NoCall

\* a caller applies a conversion to the array the previous call returned
Call_hwc2chw ==
    /\ pc = "conv"
    /\ Len(frame.calls) < MaxCalls
    /\ ret.status \in {"none", "ok"}
    /\ \E w \in BOOLEAN, d \in BOOLEAN :
         LET r == nparray_hwc2chw(frame.cur, w, d)
         IN  /\ frame' = [cur   |-> IF r.status = "ok" THEN r.value ELSE frame.cur,
                          calls |-> Append(frame.calls, "hwc2chw")]
             /\ ret' = [op |-> "hwc2chw", status |-> r.status, value |-> r.value,
                        debug |-> d]
    /\ UNCHANGED <<objs, lastSobel, pc, args>>

Call_chw2hwc ==
    /\ pc = "conv"
    /\ Len(frame.calls) < MaxCalls
    /\ ret.status \in {"none", "ok"}
    /\ \E w \in BOOLEAN, d \in BOOLEAN :
         LET r == nparray_chw2hwc(frame.cur, w, d)
         IN  /\ frame' = [cur   |-> IF r.status = "ok" THEN r.value ELSE frame.cur,
                          calls |-> Append(frame.calls, "chw2hwc")]
             /\ ret' = [op |-> "chw2hwc", status |-> r.status, value |-> r.value,
                        debug |-> d]
    /\ UNCHANGED <<objs, lastSobel, pc, args>>

NextConv == Call_hwc2chw \/ Call_chw2hwc

SpecConv == InitConv /\ [][NextConv]_vars

\* C1: for every rank-3 array A, nparray_chw2hwc(nparray_hwc2chw(A)) has the
\* shape and the elements of A, and nparray_hwc2chw(nparray_chw2hwc(A)) too.
C1_RoundTrip ==
    (pc = "conv" /\ ndim(args.input) = 3
        /\ (frame.calls = <<"hwc2chw", "chw2hwc">>
              \/ frame.calls = <<"chw2hwc", "hwc2chw">>)) =>
        /\ ret.status = "ok"
        /\ ret.value.shape = args.input.shape
        /\ \A idx \in Indices(args.input.shape) :
             ret.value.data[idx] = args.input.data[idx]
        /\ DOMAIN ret.value.data = DOMAIN args.input.data

C1_Witness ==
    /\ pc = "conv"
    /\ args.input.shape = <<1, 2, 3>>
    /\ frame.calls = <<"hwc2chw", "chw2hwc">>
    /\ ret.status = "ok"
    /\ ret.value = args.input

------------------------------------------------------------------------------
(* math_conversion.py: nparray_resize *)

MaxSide == 2
MaxFactor == 2

\* xinshuo_miscellaneous.isscalar, on an optional scalar that is not None
isscalar(v) == Len(v) = 1

Interps == {"bicubic", "bilinear", "nearest"}
ImageSizes == {<<h, w>> : h \in 1..MaxSide, w \in 1..MaxSide}
ResizeFactors == {None} \cup {<<f>> : f \in 1..MaxFactor}
TargetSizes == {None} \cup ImageSizes

\* cv2.resize(src, (width, height), interpolation): an array of height x width;
\* cv2.error for an empty target. The interpolated elements are not modelled.
cv2_resize(np_array, target_width, target_height, interpolation) ==
    IF target_width <= 0 \/ target_height <= 0
    THEN [status |-> "cv2.error", value |-> None]
    ELSE [status |-> "ok",
          value  |-> [shape |-> <<target_height, target_width>>,
                      interpolation |-> interpolation]]

at_least_one(resize_factor, target_size) ==
    resize_factor # None \/ target_size # None

\* the condition asserted at line 112
exactly_one(resize_factor, target_size) ==
    \/ (resize_factor # None /\ target_size = None)
    \/ (resize_factor = None /\ target_size # None)

\* lines 114-121: the target (width, height), or the assertion that fails.
\* The factors drawn here are integers, so round() changes nothing.
resize_target(np_array, resize_factor, target_size, debug) ==
    IF target_size # None
    THEN IF debug /\ ~isimsize(target_size)
         THEN [status |-> "AssertionError", width |-> 0, height |-> 0]
         ELSE [status |-> "ok", width |-> target_size[2], height |-> target_size[1]]
    ELSE IF resize_factor # None
    THEN IF debug /\ ~isscalar(resize_factor)
         THEN [status |-> "AssertionError", width |-> 0, height |-> 0]
         ELSE [status |-> "ok",
               width  |-> resize_factor[1] * np_array.shape[2],
               height |-> resize_factor[1] * np_array.shape[1]]
    ELSE [status |-> "AssertionError", width |-> 0, height |-> 0]

\* nparray_resize: copy (109), checks under debug (110-112), target size
\* (114-121), interpolation (123-127), return (129).
nparray_resize(input_nparray, resize_factor, target_size, interp, warning, debug) ==
    LET np_array == safe_npdata(input_nparray, warning, debug)
        target == resize_target(np_array, resize_factor, target_size, debug)
    IN  IF debug /\ interp \notin {"bicubic", "bilinear"}
        THEN [status |-> "AssertionError", value |-> None]
        ELSE IF debug /\ ~exactly_one(resize_factor, target_size)
        THEN [status |-> "AssertionError", value |-> None]
        ELSE IF target.status # "ok"
        THEN [status |-> target.status, value |-> None]
        ELSE IF interp = "bicubic"
        THEN cv2_resize(np_array, target.width, target.height, "INTER_CUBIC")
        ELSE IF interp = "bilinear"
        THEN cv2_resize(np_array, target.width, target.height, "INTER_LINEAR")
        ELSE [status |-> "AssertionError", value |-> None]

InitResize ==
    /\ objs = <<>>
    /\ lastSobel = <<>>
    /\ pc = "resize_call"
    /\ \E shape \in ImageSizes, rf \in ResizeFactors, ts \in TargetSizes,
          interp \in Interps, w \in BOOLEAN, d \in BOOLEAN :
         args = [input_nparray |-> Labelled(shape, 0), resize_factor |-> rf,
                 target_size |-> ts, interp |-> interp, warning |-> w, debug |-> d]
    /\ frame = None
    /\ ret = NoCall

Call_resize ==
    /\ pc = "resize_call"
    /\ LET r == nparray_resize(args.input_nparray, args.resize_factor,
                               args.target_size, args.interp, args.warning, args.debug)
       IN  ret' = [op |-> "resize", status |-> r.status, value |-> r.value]
    /\ pc' = "resize_done"
    /\ UNCHANGED <<objs, lastSobel, args, frame>>

NextResize == Call_resize

SpecResize == InitResize /\ [][NextResize]_vars

BothGiven == args.resize_factor # None /\ args.target_size # None
NeitherGiven == args.resize_factor = None /\ args.target_size = None

------------------------------------------------------------------------------
(* math_conversion.py: generate_gaussian_heatmap *)

MaxPts == 2
MaxStd == 2

\* Heatmap values are fixed-point numbers counted in millionths: One is 1.0.
One == 1000000
\* threshold = 0.01 (line 66), in millionths
Threshold == 10000

\* np.exp(d2 / -2.0 / std / std), in millionths (rounded to the nearest), for
\* std = 1, 2, 3 and squared distances d2 = 0 .. 29. No entry is within two
\* millionths of the threshold, so comparing the rounded values with Threshold
\* decides as comparing the exact ones with 0.01 does.
GaussTable ==
    << <<1000000, 606531, 367879, 223130, 135335, 82085, 49787, 30197, 18316,
         11109, 6738, 4087, 2479, 1503, 912, 553, 335, 203, 123, 75, 45, 28, 17,
         10, 6, 4, 2, 1, 1, 1>>,
       <<1000000, 882497, 778801, 687289, 606531, 535261, 472367, 416862,
         367879, 324652, 286505, 252840, 223130, 196912, 173774, 153355, 135335,
         119433, 105399, 93014, 82085, 72440, 63928, 56416, 49787, 43937, 38774,
         34218, 30197, 26649>>,
       <<1000000, 945959, 894839, 846482, 800737, 757465, 716531, 677810,
         641180, 606531, 573753, 542747, 513417, 485672, 459426, 434598, 411112,
         388896, 367879, 347999, 329193, 311403, 294575, 278656, 263597, 249352,
         235877, 223130, 211072, 199666>> >>

np_exp_gauss(d2, std) == GaussTable[std][d2 + 1]

\* private.safe_2dptsarray_occlusion: the points as a 3 x N array, N >= 0, kept
\* here as the sequence of its N columns <<x, y, state>>
safe_2dptsarray_occlusion(input_pts, warning, debug) == input_pts

\* lines 67-70: the Gaussian of every point at every pixel; index <<y, x, p>>
raw_heatmap(pts_array, height, width, std) ==
    LET shape == <<height, width, Len(pts_array)>>
    IN  [shape |-> shape,
         data  |-> [idx \in Indices(shape) |->
                      np_exp_gauss((idx[2] - pts_array[idx[3] + 1][1]) ^ 2
                                     + (idx[1] - pts_array[idx[3] + 1][2]) ^ 2, std)]]

\* lines 72, 74-75: 1 for the points whose state is 0 or 1, and for the
\* background slot
mask_valid_of(pts_array) ==
    LET num_pts == Len(pts_array)
        shape == <<1, 1, num_pts + 1>>
    IN  [shape |-> shape,
         data  |-> [idx \in Indices(shape) |->
                      IF idx[3] < num_pts
                      THEN (IF pts_array[idx[3] + 1][3] = 0 \/ pts_array[idx[3] + 1][3] = 1
                            THEN 1 ELSE 0)
                      ELSE 1]]

\* lines 73, 76-77: 1 for the points whose state is 1, and for the background slot
mask_visible_of(pts_array) ==
    LET num_pts == Len(pts_array)
        shape == <<1, 1, num_pts + 1>>
    IN  [shape |-> shape,
         data  |-> [idx \in Indices(shape) |->
                      IF idx[3] < num_pts
                      THEN (IF pts_array[idx[3] + 1][3] = 1 THEN 1 ELSE 0)
                      ELSE 1]]

\* lines 80-81: values under the threshold become 0, values over 1 become 1
floor_and_cap(heatmap) ==
    [heatmap EXCEPT !.data =
        [idx \in DOMAIN heatmap.data |->
            IF heatmap.data[idx] < Threshold THEN 0
            ELSE IF heatmap.data[idx] > One THEN One
            ELSE heatmap.data[idx]]]

apply_mask_skipped(heatmap, mask_valid, mask_visible) == heatmap

\* line 82: heatmap * mask_valid[:, :, :num_pts], the mask broadcast over the pixels
apply_mask(heatmap, mask_valid, mask_visible) ==
    [heatmap EXCEPT !.data =
        [idx \in DOMAIN heatmap.data |->
            heatmap.data[idx] * mask_valid.data[<<0, 0, idx[3]>>]]]

SetMax(S) == CHOOSE m \in S : \A v \in S : v <= m

\* np.amax(a, axis=2): ValueError when the axis has length 0 (the maximum of
\* no values has no identity)
np_amax_axis2(a) ==
    IF a.shape[3] = 0
    THEN [status |-> "ValueError", value |-> None]
    ELSE LET shape == <<a.shape[1], a.shape[2]>>
         IN  [status |-> "ok",
              value  |-> [shape |-> shape,
                          data  |-> [idx \in Indices(shape) |->
                                       SetMax({a.data[<<idx[1], idx[2], p>>] :
                                                   p \in 0..(a.shape[3] - 1)})]]]

\* lines 84-85: 1 - max over the channels, negative values set to 0
background_of(amax) ==
    [amax EXCEPT !.data =
        [idx \in DOMAIN amax.data |->
            IF One - amax.data[idx] < 0 THEN 0 ELSE One - amax.data[idx]]]

\* line 86: np.concatenate((masked_heatmap, expand_dims(background_label, 2)), axis=2)
append_channel(masked_heatmap, background_label) ==
    LET shape == <<masked_heatmap.shape[1], masked_heatmap.shape[2],
                   masked_heatmap.shape[3] + 1>>
    IN  [shape |-> shape,
         data  |-> [idx \in Indices(shape) |->
                      IF idx[3] < masked_heatmap.shape[3]
                      THEN masked_heatmap.data[idx]
                      ELSE background_label.data[<<idx[1], idx[2]>>]]]

PtXs == {-3, 1}
PtYs == {0, 2}
PtStates == {-1, 0, 1}
Points == {<<x, y, s>> : x \in PtXs, y \in PtYs, s \in PtStates}
PointSets == UNION {[1..n -> Points] : n \in 0..MaxPts}

InitHeat ==
    /\ objs = <<>>
    /\ lastSobel = <<>>
    /\ pc = "heat_call"
    /\ \E pts \in PointSets, size \in ImageSizes, std \in 1..MaxStd, d \in BOOLEAN :
         args = [input_pts |-> pts, image_size |-> size, std |-> std,
                 warning |-> TRUE, debug |-> d]
    /\ frame = None
    /\ ret = NoCall

\* lines 61-82: normalise the points, check the arguments under debug, build
\* the Gaussians and the masks, floor, cap and mask the heatmap
Heat_Masks ==
    /\ pc = "heat_call"
    /\ LET pts_array == safe_2dptsarray_occlusion(args.input_pts, args.warning, args.debug)
           mask_valid == mask_valid_of(pts_array)
           mask_visible == mask_visible_of(pts_array)
           heatmap == floor_and_cap(raw_heatmap(pts_array, args.image_size[1],
                                                args.image_size[2], args.std))
       IN  IF args.debug /\ ~(isscalar(<<args.std>>) /\ isimsize(args.image_size))
           THEN /\ pc' = "heat_done"
                /\ ret' = [op |-> "heatmap", status |-> "AssertionError", value |-> None]
                /\ frame' = frame
           ELSE /\ pc' = "heat_line84"
                /\ frame' = [pts_array |-> pts_array, mask_valid |-> mask_valid,
                             mask_visible |-> mask_visible,
                             masked_heatmap |-> apply_mask(heatmap, mask_valid, mask_visible)]
                /\ ret' = ret
    /\ UNCHANGED <<objs, lastSobel, args>>

\* lines 84-88: the background channel, appended as the last one, and the return
Heat_Background ==
    /\ pc = "heat_line84"
    /\ LET amax == np_amax_axis2(frame.masked_heatmap)
       IN  IF amax.status # "ok"
           THEN ret' = [op |-> "heatmap", status |-> amax.status, value |-> None]
           ELSE ret' = [op |-> "heatmap", status |-> "ok",
                        value |-> [masked_heatmap |->
                                       append_channel(frame.masked_heatmap,
                                                      background_of(amax.value)),
                                   mask_valid |-> frame.mask_valid,
                                   mask_visible |-> frame.mask_visible]]
    /\ pc' = "heat_done"
    /\ UNCHANGED <<objs, lastSobel, args, frame>>

NextHeat == Heat_Masks \/ Heat_Background

SpecHeat == InitHeat /\ [][NextHeat]_vars

Pixels == {<<y, x>> : y \in 0..(args.image_size[1] - 1), x \in 0..(args.image_size[2] - 1)}

\* the largest of the first n channels of a heatmap at a pixel
MaxOverPoints(heatmap, px, n) ==
    SetMax({heatmap.data[<<px[1], px[2], p>>] : p \in 0..(n - 1)})

\* C2: for every valid point set of N points (N >= 0), image size (H, W) and
\* std > 0, generate_gaussian_heatmap returns a heatmap of shape (H, W, N+1)
\* whose last channel is max(0, 1 - m) at every pixel, m the largest of the
\* first N channels there (no channel, so m = 0, when N = 0).
C2_ShapeAndBackground ==
    pc = "heat_done" =>
        /\ ret.status = "ok"
        /\ LET n == Len(args.input_pts)
               hm == ret.value.masked_heatmap
           IN  /\ hm.shape = <<args.image_size[1], args.image_size[2], n + 1>>
               /\ DOMAIN hm.data = Indices(hm.shape)
               /\ \A px \in Pixels :
                    LET m == IF n = 0 THEN 0 ELSE MaxOverPoints(hm, px, n)
                    IN  hm.data[<<px[1], px[2], n>>]
                            = (IF One - m < 0 THEN 0 ELSE One - m)

\* C2 restricted to point sets of at least one point: the call returns, and the
\* heatmap has the shape and the background channel C2 states.
C2_HoldsForNonEmptyPointSets ==
    (pc = "heat_done" /\ Len(args.input_pts) >= 1) => C2_ShapeAndBackground

\* C3: with no points, generate_gaussian_heatmap returns normally a heatmap of
\* shape (H, W, 1) whose every value is 1.0.
C3_EmptyPointSet ==
    (pc = "heat_done" /\ Len(args.input_pts) = 0) =>
        /\ ret.status = "ok"
        /\ ret.value.masked_heatmap.shape = <<args.image_size[1], args.image_size[2], 1>>
        /\ \A px \in Pixels : ret.value.masked_heatmap.data[<<px[1], px[2], 0>>] = One

\* what C4 says of a heatmap and its two masks
MasksAsStated(pts, heatmap, mask_valid, mask_visible) ==
    /\ \A p \in 0..(Len(pts) - 1) :
         LET state == pts[p + 1][3]
             valid == mask_valid.data[<<0, 0, p>>]
             visible == mask_visible.data[<<0, 0, p>>]
         IN  /\ state = -1 =>
                  /\ \A px \in Pixels : heatmap.data[<<px[1], px[2], p>>] = 0
                  /\ valid = 0 /\ visible = 0
             /\ state = 0 => (valid = 1 /\ visible = 0)
             /\ state = 1 => (valid = 1 /\ visible = 1)
    /\ mask_valid.shape = <<1, 1, Len(pts) + 1>>
    /\ mask_visible.shape = <<1, 1, Len(pts) + 1>>
    /\ mask_valid.data[<<0, 0, Len(pts)>>] = 1
    /\ mask_visible.data[<<0, 0, Len(pts)>>] = 1

\* C4: in generate_gaussian_heatmap, once the masks are built and applied
\* (line 82) and in what the call returns: the channel of every point whose
\* state is -1 is zero at every pixel and its maskValid and maskVisible are 0;
\* a point of state 0 has maskValid 1 and maskVisible 0; a point of state 1
\* has both 1; the last slot of both masks is 1.
C4_Masks ==
    /\ (pc = "heat_line84" \/ (pc = "heat_done" /\ ret.status # "AssertionError")) =>
          MasksAsStated(args.input_pts, frame.masked_heatmap,
                        frame.mask_valid, frame.mask_visible)
    /\ (pc = "heat_done" /\ ret.status = "ok") =>
          MasksAsStated(args.input_pts, ret.value.masked_heatmap,
                        ret.value.mask_valid, ret.value.mask_visible)

C4_Witness ==
    /\ pc = "heat_done" /\ ret.status = "ok"
    /\ Len(args.input_pts) = 2
    /\ args.input_pts[1] = <<1, 0, -1>>
    /\ args.input_pts[2][3] = 0
    /\ args.image_size = <<2, 2>>
    /\ ret.value.masked_heatmap.data[<<0, 1, 0>>] = 0
    /\ ret.value.masked_heatmap.data[<<0, 1, 1>>] > 0
    /\ ret.value.mask_valid.data[<<0, 0, 0>>] = 0
    /\ ret.value.mask_valid.data[<<0, 0, 1>>] = 1
    /\ ret.value.mask_visible.data[<<0, 0, 1>>] = 0

====
